---- MODULE Spec2Model ----
(***************************************************************************)
(* Model of the habit tracker in src/script.js.                            *)
(*                                                                         *)
(* Calendar dates are the strings "YYYY-MM-DD" the script compares with    *)
(* === and localeCompare and subtracts through new Date(..).  They are     *)
(* modelled as day numbers: string equality is number equality,            *)
(* localeCompare is the numeric order, and the millisecond difference of   *)
(* two UTC midnights divided by 86400000 is the difference of the day      *)
(* numbers.  (The script runs in a host whose local days all have 24       *)
(* hours, so setDate(getDate() - 1) is one day earlier.)                   *)
(*                                                                         *)
(* A check-in entry is a string that is either a plain date or a date      *)
(* followed by "T" and a time; it is modelled as [d |-> day, t |-> hasTime]*)
(* and date.split('T')[0] is DatePart.                                     *)
(*                                                                         *)
(* The script is loaded as a classic (non-strict) script, so the           *)
(* assignment to the undeclared expectedDate at line 146 creates a global  *)
(* that nothing reads.  localStorage.setItem is taken to succeed.          *)
(***************************************************************************)
EXTENDS Integers, Sequences, FiniteSets, TLC

\* ---------------------------------------------------------------- bounds
\* Calendar days are 0..MaxDay.
MaxDay == 3
\* Longest check-in log found in localStorage at start.
MaxLog == 2
\* Habits ever created in one behaviour (ids are 1..MaxHabits).
MaxHabits == 2
\* Stale streak value found in a persisted habit record.
MaxStale == 1

Days == 0..MaxDay
Ids == 1..MaxHabits

\* null of state.lastCheckedDate / a missing localStorage item
NoDate == -1

\* Text typed into the name inputs; Trim is String.prototype.trim on it.
InputNames == {"", " ", "run", " read "}

Trim(name) ==
    CASE name = " " -> ""
      [] name = " read " -> "read"
      [] OTHER -> name

\* ------------------------------------------------------------- variables
VARIABLES
    today,              \* the host clock's date (getTodayDateString)
    started,            \* init() has run in this page
    habits,             \* state.habits
    lastCheckedDate,    \* state.lastCheckedDate
    storedHabits,       \* localStorage[STORAGE_KEY], parsed
    storedLastChecked,  \* localStorage[LAST_CHECKED_DATE_KEY]
    nextId,             \* number of habits created so far (fresh ids)
    lastOp              \* history: the handler that ran last

vars == <<today, started, habits, lastCheckedDate, storedHabits,
          storedLastChecked, nextId, lastOp>>

\* ------------------------------------------------------- date utilities
Entry(d, t) == [d |-> d, t |-> t]

\* date.split('T')[0]
DatePart(e) == e.d

\* the string getTodayDateString() returns, as a log entry
TodayString(t) == Entry(t, FALSE)

getYesterdayDateString(t) == t - 1

isToday(date, t) == date = t

Abs(x) == IF x < 0 THEN -x ELSE x

\* The date part of a check-in entry that is no date (text such as
\* "garbage").  localeCompare places letters after digits, so it sorts as
\* newer than every date; it equals no date.
BadDate == MaxDay + 1

BadEntry == Entry(BadDate, FALSE)

\* NaN, the difference of an Invalid Date: it is not === 0, not === 1 and
\* not > 1.
NaN == -1

getDaysDifference(date1, date2) ==
    IF date1 = BadDate \/ date2 = BadDate THEN NaN ELSE Abs(date2 - date1)

\* ------------------------------------------------------ sequence helpers
\* Array.prototype.indexOf: first index holding x, 0 when absent
IndexOf(s, x) ==
    IF \E i \in DOMAIN s : s[i] = x
    THEN CHOOSE i \in DOMAIN s : s[i] = x /\ \A j \in 1..(i-1) : s[j] # x
    ELSE 0

\* s without the element at index i (splice(i, 1))
RemoveAt(s, i) == [j \in 1..(Len(s) - 1) |-> IF j < i THEN s[j] ELSE s[j + 1]]

\* .map(date => date.split('T')[0])
MapDatePart(s) == [i \in DOMAIN s |-> DatePart(s[i])]

\* .filter((date, index, self) => self.indexOf(date) === index)
RECURSIVE KeepFirsts(_, _)
KeepFirsts(s, i) ==
    IF i > Len(s) THEN <<>>
    ELSE (IF IndexOf(s, s[i]) = i THEN <<s[i]>> ELSE <<>>) \o KeepFirsts(s, i + 1)

RemoveDuplicates(s) == KeepFirsts(s, 1)

SeqMax(s) == CHOOSE m \in {s[i] : i \in DOMAIN s} : \A i \in DOMAIN s : s[i] <= m

\* .sort((a, b) => b.localeCompare(a)): newest first
RECURSIVE SortDescending(_)
SortDescending(s) ==
    IF s = <<>> THEN <<>>
    ELSE LET m == SeqMax(s)
         IN <<m>> \o SortDescending(RemoveAt(s, IndexOf(s, m)))

Max(a, b) == IF a >= b THEN a ELSE b

\* ----------------------------------------------------- streak calculation
\* variant: duplicates removed from the raw strings, before the time is cut off
SortedCheckInsDedupFirst(checkIns) == SortDescending(MapDatePart(RemoveDuplicates(checkIns)))

\* lines 100-104: the newest-first list of distinct calendar dates
SortedCheckIns(checkIns) == SortDescending(RemoveDuplicates(MapDatePart(checkIns)))

\* variant: no break at a gap, the walk resumes from the date after it
RECURSIVE CountBackwardsPastGap(_, _, _, _)
CountBackwardsPastGap(sorted, i, expectedDate, currentStreak) ==
    IF i > Len(sorted) THEN currentStreak
    ELSE IF getDaysDifference(sorted[i], expectedDate) = 0
         THEN CountBackwardsPastGap(sorted, i + 1, sorted[i] - 1, currentStreak + 1)
         ELSE CountBackwardsPastGap(sorted, i + 1, sorted[i] - 1, currentStreak)

\* lines 126-141: the backwards walk from index i with the running count
RECURSIVE CountBackwards(_, _, _, _)
CountBackwards(sorted, i, expectedDate, currentStreak) ==
    IF i > Len(sorted) THEN currentStreak
    ELSE IF getDaysDifference(sorted[i], expectedDate) = 0
         THEN CountBackwards(sorted, i + 1, sorted[i] - 1, currentStreak + 1)
         ELSE currentStreak

\* variant: a check-in yesterday keeps the current streak alive
CurrentStreakOfGrace(sorted, t) ==
    IF isToday(sorted[1], t) \/ sorted[1] = getYesterdayDateString(t)
    THEN CountBackwards(sorted, 2, sorted[1] - 1, 1)
    ELSE 0

\* lines 117-143
CurrentStreakOf(sorted, t) ==
    IF isToday(sorted[1], t)
    THEN CountBackwards(sorted, 2, getYesterdayDateString(t), 1)
    ELSE 0

\* variant: line 172 missing, the last run is never compared
RECURSIVE ScanHistoryNoFinalMax(_, _, _, _)
ScanHistoryNoFinalMax(sorted, i, tempStreak, longestStreak) ==
    IF i > Len(sorted) THEN longestStreak
    ELSE IF i = 1 THEN ScanHistoryNoFinalMax(sorted, 2, 1, longestStreak)
    ELSE IF getDaysDifference(sorted[i - 1], sorted[i]) = 1
         THEN ScanHistoryNoFinalMax(sorted, i + 1, tempStreak + 1, longestStreak)
         ELSE ScanHistoryNoFinalMax(sorted, i + 1, 1, Max(longestStreak, tempStreak))

\* lines 149-172: the scan from index i with tempStreak and longestStreak
RECURSIVE ScanHistory(_, _, _, _)
ScanHistory(sorted, i, tempStreak, longestStreak) ==
    IF i > Len(sorted) THEN Max(longestStreak, tempStreak)
    ELSE IF i = 1 THEN ScanHistory(sorted, 2, 1, longestStreak)
    ELSE IF getDaysDifference(sorted[i - 1], sorted[i]) = 1
         THEN ScanHistory(sorted, i + 1, tempStreak + 1, longestStreak)
         ELSE ScanHistory(sorted, i + 1, 1, Max(longestStreak, tempStreak))

\* variant: the first entry starts the run at 0 instead of 1
LongestStreakOfFromZero(sorted) == ScanHistory(sorted, 2, 0, 0)

\* lines 145-172
LongestStreakOf(sorted) == ScanHistory(sorted, 1, 0, 0)

\* variant: the history is scanned only when the newest check-in is today
calculateStreaksRecentOnly(checkIns, t) ==
    IF Len(checkIns) = 0
    THEN [currentStreak |-> 0, longestStreak |-> 0]
    ELSE LET sorted == SortedCheckIns(checkIns)
         IN IF Len(sorted) = 0 \/ ~isToday(sorted[1], t)
            THEN [currentStreak |-> 0, longestStreak |-> 0]
            ELSE [currentStreak |-> CurrentStreakOf(sorted, t),
                  longestStreak |-> LongestStreakOf(sorted)]

\* lines 95-175
calculateStreaks(checkIns, t) ==
    IF Len(checkIns) = 0
    THEN [currentStreak |-> 0, longestStreak |-> 0]
    ELSE LET sorted == SortedCheckIns(checkIns)
         IN IF Len(sorted) = 0
            THEN [currentStreak |-> 0, longestStreak |-> 0]
            ELSE [currentStreak |-> CurrentStreakOf(sorted, t),
                  longestStreak |-> LongestStreakOf(sorted)]

\* variant: lines 101-104 work on the habit's own array and leave the
\* normalised list in it
checkInsAfterCalculateStreaksInPlace(checkIns) ==
    [i \in 1..Len(SortedCheckIns(checkIns)) |-> Entry(SortedCheckIns(checkIns)[i], FALSE)]

\* The caller's array once calculateStreaks has returned: line 101 spreads it
\* into a copy, and map, filter and sort work on that copy.
checkInsAfterCalculateStreaks(checkIns) == checkIns

updateStreaks(habit, t) ==
    LET streaks == calculateStreaks(habit.checkIns, t)
    IN [habit EXCEPT !.checkIns = checkInsAfterCalculateStreaks(habit.checkIns),
                     !.currentStreak = streaks.currentStreak,
                     !.longestStreak = streaks.longestStreak]

\* ------------------------------------------------------------- storage
\* variant: the parsed list is returned with its persisted streak fields
loadHabitsFromStorageTrusting(stored, t) == stored

\* habits.forEach(updateStreaks) on the parsed list.  JSON.stringify and
\* JSON.parse of records of strings, numbers and arrays give the list back.
loadHabitsFromStorage(stored, t) == [i \in DOMAIN stored |-> updateStreaks(stored[i], t)]

\* variant: the dates are not compared
hasDateChangedAlways(lastChecked, t) == TRUE

hasDateChanged(lastChecked, t) ==
    IF lastChecked = NoDate THEN TRUE ELSE lastChecked # t

\* variant: the threshold of line 265 is off by one day
RolloverRecomputesLate(habit, t) ==
    /\ Len(habit.checkIns) # 0
    /\ LET sortedCheckIns == SortDescending(MapDatePart(habit.checkIns))
           mostRecentCheckIn == sortedCheckIns[1]
           daysSinceLastCheckIn == getDaysDifference(mostRecentCheckIn, t)
       IN daysSinceLastCheckIn > 2

\* lines 252-268: does the forEach body recompute this habit
RolloverRecomputes(habit, t) ==
    /\ Len(habit.checkIns) # 0
    /\ LET sortedCheckIns == SortDescending(MapDatePart(habit.checkIns))
           mostRecentCheckIn == sortedCheckIns[1]
           daysSinceLastCheckIn == getDaysDifference(mostRecentCheckIn, t)
       IN daysSinceLastCheckIn > 1

\* state.habits after the forEach of handleDateRollover
\* variant: habits without check-ins are filtered out, not skipped
RolledHabitsDropEmpty(hs, t) ==
    LET kept == SelectSeq(hs, LAMBDA h : Len(h.checkIns) # 0)
    IN [i \in DOMAIN kept |-> IF RolloverRecomputes(kept[i], t) THEN updateStreaks(kept[i], t) ELSE kept[i]]

RolledHabits(hs, t) ==
    [i \in DOMAIN hs |-> IF RolloverRecomputes(hs[i], t) THEN updateStreaks(hs[i], t) ELSE hs[i]]

needsUpdate(hs, t) == \E i \in DOMAIN hs : RolloverRecomputes(hs[i], t)

\* handleDateRollover as a step on the variables it can write
handleDateRollover(hs) ==
    /\ habits' = RolledHabits(hs, today)
    /\ IF needsUpdate(hs, today)
       THEN /\ storedHabits' = RolledHabits(hs, today)
            /\ lastCheckedDate' = today
            /\ storedLastChecked' = today
       ELSE UNCHANGED <<storedHabits, storedLastChecked>>

\* saveHabitsToStorage with the new habit list
saveHabitsToStorage(hs) ==
    /\ storedHabits' = hs
    /\ lastCheckedDate' = today
    /\ storedLastChecked' = today

\* ---------------------------------------------------- habit management
createHabit(id, name) ==
    [id |-> id, name |-> Trim(name), checkIns |-> <<>>,
     currentStreak |-> 0, longestStreak |-> 0]

\* variant: when no habit has the id, the first habit is taken
FindHabitOrFirst(hs, id) ==
    IF \E i \in DOMAIN hs : hs[i].id = id
    THEN CHOOSE i \in DOMAIN hs : hs[i].id = id /\ \A j \in 1..(i-1) : hs[j].id # id
    ELSE IF Len(hs) > 0 THEN 1 ELSE 0

\* state.habits.find(h => h.id === id): its index, 0 when there is none
FindHabit(hs, id) ==
    IF \E i \in DOMAIN hs : hs[i].id = id
    THEN CHOOSE i \in DOMAIN hs : hs[i].id = id /\ \A j \in 1..(i-1) : hs[j].id # id
    ELSE 0

\* variant: the entries are compared with today without cutting off the time
TodayCheckInIndexRawString(checkIns, t) == IndexOf(checkIns, TodayString(t))

\* findIndex(date => date.split('T')[0] === today), 0 when there is none
TodayCheckInIndex(checkIns, t) == IndexOf(MapDatePart(checkIns), t)

\* variant: the button only checks in, without looking for today's entry
ToggledCheckInsPushOnly(checkIns, t) == Append(checkIns, TodayString(t))

\* lines 357-370: the log after the toggle
ToggledCheckIns(checkIns, t) ==
    LET todayCheckInIndex == TodayCheckInIndex(checkIns, t)
    IN IF todayCheckInIndex # 0
       THEN RemoveAt(checkIns, todayCheckInIndex)
       ELSE IF IndexOf(checkIns, TodayString(t)) = 0
            THEN Append(checkIns, TodayString(t))
            ELSE checkIns

\* variant: the toggle forgets to call updateStreaks
ToggledHabitNoRecalc(habit, t) ==
    [habit EXCEPT !.checkIns = ToggledCheckIns(habit.checkIns, t)]

\* lines 354-373: the habit after the toggle and updateStreaks
ToggledHabit(habit, t) ==
    updateStreaks([habit EXCEPT !.checkIns = ToggledCheckIns(habit.checkIns, t)], t)

\* What the last step was: the operation, the habit it acted on, whether it
\* called handleDateRollover, and whether the date has advanced under the
\* running page since the interval callback last ran.
Op(op, id, rolled) ==
    [op |-> op, id |-> id, rolled |-> rolled,
     dateAdvanced |-> IF op \in {"none", "init", "poll"} THEN FALSE
                      ELSE IF op = "advance" THEN started
                      ELSE lastOp.dateAdvanced]

\* --------------------------------------------------------------- actions
\* init(): load, rollover check, start the timer
AppInit ==
    /\ started' = TRUE
    /\ LET loaded == loadHabitsFromStorage(storedHabits, today)
       IN IF hasDateChanged(storedLastChecked, today)
          THEN /\ handleDateRollover(loaded)
               /\ IF needsUpdate(loaded, today) THEN TRUE
                  ELSE lastCheckedDate' = NoDate
               /\ lastOp' = Op("init", 0, TRUE)
          ELSE /\ habits' = loaded
               /\ lastCheckedDate' = NoDate
               /\ UNCHANGED <<storedHabits, storedLastChecked>>
               /\ lastOp' = Op("init", 0, FALSE)
    /\ UNCHANGED <<today, nextId>>

\* the setInterval callback
TimerPoll ==
    /\ started
    /\ IF hasDateChanged(storedLastChecked, today)
       THEN /\ handleDateRollover(habits)
            /\ IF needsUpdate(habits, today) THEN TRUE
               ELSE UNCHANGED lastCheckedDate
            /\ lastOp' = Op("poll", 0, TRUE)
       ELSE /\ UNCHANGED <<habits, lastCheckedDate, storedHabits, storedLastChecked>>
            /\ lastOp' = Op("poll", 0, FALSE)
    /\ UNCHANGED <<today, started, nextId>>

\* the host clock passes midnight
AdvanceDate ==
    /\ today < MaxDay
    /\ today' = today + 1
    /\ lastOp' = Op("advance", 0, FALSE)
    /\ UNCHANGED <<started, habits, lastCheckedDate, storedHabits,
                   storedLastChecked, nextId>>

addHabit(name) ==
    /\ started
    /\ IF Trim(name) = ""
       THEN UNCHANGED <<habits, lastCheckedDate, storedHabits, storedLastChecked, nextId>>
       ELSE /\ nextId < MaxHabits
            /\ nextId' = nextId + 1
            /\ habits' = Append(habits, createHabit(nextId + 1, name))
            /\ saveHabitsToStorage(habits')
    /\ lastOp' = Op("add", 0, FALSE)
    /\ UNCHANGED <<today, started>>

updateHabit(id, newName) ==
    /\ started
    /\ IF Trim(newName) = "" \/ FindHabit(habits, id) = 0
       THEN UNCHANGED <<habits, lastCheckedDate, storedHabits, storedLastChecked>>
       ELSE /\ habits' = [habits EXCEPT ![FindHabit(habits, id)].name = Trim(newName)]
            /\ saveHabitsToStorage(habits')
    /\ lastOp' = Op("rename", id, FALSE)
    /\ UNCHANGED <<today, started, nextId>>

deleteHabit(id) ==
    /\ started
    /\ habits' = SelectSeq(habits, LAMBDA h : h.id # id)
    /\ saveHabitsToStorage(habits')
    /\ lastOp' = Op("delete", id, FALSE)
    /\ UNCHANGED <<today, started, nextId>>

toggleCheckIn(id) ==
    /\ started
    /\ IF FindHabit(habits, id) = 0
       THEN UNCHANGED <<habits, lastCheckedDate, storedHabits, storedLastChecked>>
       ELSE /\ habits' = [habits EXCEPT ![FindHabit(habits, id)] = ToggledHabit(@, today)]
            /\ saveHabitsToStorage(habits')
    /\ lastOp' = Op("toggle", IF FindHabit(habits, id) = 0 THEN 0 ELSE id, FALSE)
    /\ UNCHANGED <<today, started, nextId>>

Next ==
    \/ AppInit
    \/ TimerPoll
    \/ AdvanceDate
    \/ \E name \in InputNames : addHabit(name)
    \/ \E id \in Ids, newName \in InputNames : updateHabit(id, newName)
    \/ \E id \in Ids : deleteHabit(id)
    \/ \E id \in Ids : toggleCheckIn(id)

\* ------------------------------------------------------- specifications
\* A first visit: nothing in localStorage.
Init ==
    /\ today = 0
    /\ started = FALSE
    /\ habits = <<>>
    /\ lastCheckedDate = NoDate
    /\ storedHabits = <<>>
    /\ storedLastChecked = NoDate
    /\ nextId = 0
    /\ lastOp = Op("none", 0, FALSE)

Spec == Init /\ [][Next]_vars

\* A return visit: localStorage holds what an earlier session (or an earlier
\* version of the page) left there.  Entries may carry a time, dates may
\* repeat or lie after today, and the persisted streak fields may be stale.
\* A saved habit list comes with the date of the save (lines 220-222).
Entries == {Entry(d, t) : d \in Days, t \in BOOLEAN}

RECURSIVE SeqsUpTo(_, _)
SeqsUpTo(S, n) ==
    IF n = 0 THEN {<<>>}
    ELSE LET shorter == SeqsUpTo(S, n - 1)
         IN shorter \cup {Append(s, x) : s \in {q \in shorter : Len(q) = n - 1}, x \in S}

PersistedLogs == SeqsUpTo(Entries, MaxLog)

\* The persisted streak fields: both zero, or both a value left by an
\* earlier day.
PersistedStreaks == {0, MaxStale}

PersistedHabit(id) ==
    {[id |-> id, name |-> "run", checkIns |-> log,
      currentStreak |-> k, longestStreak |-> k] : log \in PersistedLogs, k \in PersistedStreaks}

\* localStorage holds no list, or a list of one habit
PersistedLists == {<<>>} \cup {<<h>> : h \in PersistedHabit(1)}

InitPersisted ==
    /\ today = 0
    /\ started = FALSE
    /\ habits = <<>>
    /\ lastCheckedDate = NoDate
    /\ storedHabits \in PersistedLists
    /\ storedLastChecked \in (IF storedHabits = <<>> THEN {NoDate, today} ELSE {today})
    /\ nextId = Len(storedHabits)
    /\ lastOp = Op("none", 0, FALSE)

\* The session of a return visit, without the forms that add, rename and
\* delete habits.
NextPersisted ==
    \/ AppInit
    \/ TimerPoll
    \/ AdvanceDate
    \/ \E id \in Ids : toggleCheckIn(id)

SpecPersisted == InitPersisted /\ [][NextPersisted]_vars

\* One page load on a given day, for the claims about calculateStreaks and
\* one day's toggles: the persisted log and today are drawn from all logs and
\* all days, init() and the check-in button apply calculateStreaks to them.
InitEngine ==
    /\ today \in Days
    /\ started = FALSE
    /\ habits = <<>>
    /\ lastCheckedDate = NoDate
    /\ storedHabits \in {list \in PersistedLists : \A i \in DOMAIN list : list[i].currentStreak = 0}
    /\ storedLastChecked = (IF storedHabits = <<>> THEN NoDate ELSE 0)
    /\ nextId = Len(storedHabits)
    /\ lastOp = Op("none", 0, FALSE)

NextEngine ==
    \/ AppInit
    \/ \E id \in Ids : toggleCheckIn(id)

SpecEngine == InitEngine /\ [][NextEngine]_vars

\* One page load on a given day of a persisted habit whose log holds one
\* entry that is no date, next to well-formed entries.
MalformedLogs ==
    {log \in SeqsUpTo(Entries \cup {BadEntry}, MaxLog) :
        /\ Cardinality({i \in DOMAIN log : log[i] = BadEntry}) = 1
        /\ Len(log) >= 2}

InitMalformed ==
    /\ today \in Days
    /\ started = FALSE
    /\ habits = <<>>
    /\ lastCheckedDate = NoDate
    /\ storedHabits \in {<<[id |-> 1, name |-> "run", checkIns |-> log,
                             currentStreak |-> 0, longestStreak |-> 0]>> : log \in MalformedLogs}
    /\ storedLastChecked = 0
    /\ nextId = 1
    /\ lastOp = Op("none", 0, FALSE)

SpecMalformed == InitMalformed /\ [][NextEngine]_vars

\* ------------------------------------------------- notions of the claims
\* the calendar dates of a log
DateSet(checkIns) == {DatePart(checkIns[i]) : i \in DOMAIN checkIns}

\* number of entries of the log on calendar date d
EntriesOn(checkIns, d) == Cardinality({i \in DOMAIN checkIns : DatePart(checkIns[i]) = d})

OnePerDate(checkIns) == \A d \in DateSet(checkIns) : EntriesOn(checkIns, d) = 1

\* the largest k with t, t-1, ..., t-(k-1) all in S
RunEndingAt(S, t) ==
    CHOOSE k \in 0..(MaxDay + 1) :
        /\ \A j \in 0..(k - 1) : (t - j) \in S
        /\ (t - k) \notin S

\* the length of the longest run of consecutive dates in S, 0 for no dates
MaxRun(S) ==
    IF S = {} THEN 0
    ELSE LET lengths == {b - a + 1 : <<a, b>> \in {p \in S \X S : p[1] <= p[2] /\ \A d \in p[1]..p[2] : d \in S}}
         IN CHOOSE n \in lengths : \A m \in lengths : m <= n

\* the log that lists each date of S once, as a plain date, oldest first
RECURSIVE PlainLog(_)
PlainLog(S) ==
    IF S = {} THEN <<>>
    ELSE LET m == CHOOSE x \in S : \A y \in S : y <= x
         IN Append(PlainLog(S \ {m}), Entry(m, FALSE))

StoredStreaks(habit) ==
    [currentStreak |-> habit.currentStreak, longestStreak |-> habit.longestStreak]

\* the stored streak fields are the engine's values for the log and today
UpToDate(habit) == StoredStreaks(habit) = calculateStreaks(habit.checkIns, today)

\* -------------------------------------------------------------- claims
\* C1: when the rollover check has run because the date changed (at startup
\* or at a timer poll), every habit's stored currentStreak and longestStreak
\* equal calculateStreaks(its log, today).
C1_RolloverRecomputesAll ==
    lastOp.rolled => \A i \in DOMAIN habits : UpToDate(habits[i])

\* C2: whenever handleDateRollover has run, the persisted last-checked
\* date equals today.
C2_RolloverStampsToday ==
    lastOp.rolled => storedLastChecked = today

\* C3: calculateStreaks returns currentStreak = 0 whenever the most recent
\* calendar date of the log is not today, for every log and every today.
C3_MissingTodayIsZero ==
    \A i \in DOMAIN habits : \A t \in Days :
        LET log == habits[i].checkIns
        IN (log = <<>> \/ \E d \in DateSet(log) : d > t \/ t \notin DateSet(log))
           => calculateStreaks(log, t).currentStreak = 0

\* a loaded habit with check-ins yesterday and the day before, none today
\* and none later, shown with current streak 0
C3_Witness ==
    /\ started
    /\ \E i \in DOMAIN habits :
        LET S == DateSet(habits[i].checkIns)
        IN /\ S = {today - 1, today - 2}
           /\ habits[i].currentStreak = 0
           /\ habits[i].longestStreak = 2

\* C4: for a log that contains today and nothing later, currentStreak is
\* the largest k with today, today-1, ..., today-(k-1) all in the log.
C4_CurrentStreakIsRunEndingToday ==
    \A i \in DOMAIN habits : \A t \in Days :
        LET S == DateSet(habits[i].checkIns)
        IN (t \in S /\ \A d \in S : d <= t)
           => calculateStreaks(habits[i].checkIns, t).currentStreak = RunEndingAt(S, t)

\* a habit checked in today and yesterday, not the day before, but the day
\* before that, has just been toggled and shows current streak 2
C4_Witness ==
    /\ lastOp.op = "toggle"
    /\ \E i \in DOMAIN habits :
        /\ DateSet(habits[i].checkIns) = {today, today - 1, today - 3}
        /\ habits[i].currentStreak = 2

\* C5: longestStreak is the length of the longest run of consecutive dates
\* in the deduplicated log, whatever today is.
C5_LongestIsMaxRun ==
    \A i \in DOMAIN habits : \A t \in Days :
        calculateStreaks(habits[i].checkIns, t).longestStreak = MaxRun(DateSet(habits[i].checkIns))

\* a habit whose longest run is two days in the past while today stands
\* alone: current streak 1, longest streak 2
C5_Witness ==
    /\ lastOp.op = "toggle"
    /\ \E i \in DOMAIN habits :
        /\ DateSet(habits[i].checkIns) = {today, today - 2, today - 3}
        /\ habits[i].currentStreak = 1
        /\ habits[i].longestStreak = 2

\* C6: for a non-empty log and any today, longestStreak >= 1, both values
\* are non-negative, and longestStreak >= currentStreak when that is > 0.
C6_StreakBounds ==
    \A i \in DOMAIN habits : \A t \in Days :
        LET r == calculateStreaks(habits[i].checkIns, t)
        IN habits[i].checkIns # <<>>
           => /\ r.longestStreak >= 1
              /\ r.currentStreak >= 0
              /\ r.currentStreak > 0 => r.longestStreak >= r.currentStreak

\* a habit with a single check-in, today, shown with streaks 1 and 1
C6_Witness ==
    /\ started
    /\ \E i \in DOMAIN habits :
        /\ Len(habits[i].checkIns) = 1
        /\ habits[i].currentStreak = 1
        /\ habits[i].longestStreak = 1

\* C7: toggling the check-in of a habit twice on the same date restores
\* the set of calendar dates of its log and its streak values, for any
\* starting log.
C7_ToggleTwiceRestores ==
    started =>
        \A i \in DOMAIN habits :
            LET twice == ToggledHabit(ToggledHabit(habits[i], today), today)
            IN /\ DateSet(twice.checkIns) = DateSet(habits[i].checkIns)
               /\ StoredStreaks(twice) = calculateStreaks(habits[i].checkIns, today)

\* C8: a log that repeats a calendar date, as a plain date or with a time,
\* yields the same streaks as the log listing each of its dates once.
C8_DuplicatesIgnored ==
    \A i \in DOMAIN habits : \A t \in Days :
        calculateStreaks(habits[i].checkIns, t)
            = calculateStreaks(PlainLog(DateSet(habits[i].checkIns)), t)

\* a habit whose log holds yesterday as a plain date and with a time, and
\* today, shown with current streak 2
C8_Witness ==
    /\ started
    /\ \E i \in DOMAIN habits :
        LET log == habits[i].checkIns
        IN /\ \E a, b \in DOMAIN log :
                a # b /\ log[a].d = today - 1 /\ log[b].d = today - 1 /\ log[a].t # log[b].t
           /\ today \in DateSet(log)
           /\ habits[i].currentStreak = 2
           /\ habits[i].longestStreak = 2

\* C9: starting from habits created with an empty log, every habit's log
\* holds at most one entry per calendar date.
C9_OneEntryPerDate ==
    \A i \in DOMAIN habits : OnePerDate(habits[i].checkIns)

\* two habits exist, one was toggled on three different days
C9_Witness ==
    /\ lastOp.op = "toggle"
    /\ Len(habits) = 2
    /\ \E i \in DOMAIN habits : Len(habits[i].checkIns) = 3

\* C10: on a log with at most one entry per calendar date, toggleCheckIn
\* removes today's entry when there is one and otherwise inserts exactly
\* one entry for today.
C10_ToggleFlipsToday ==
    [][\A i \in DOMAIN habits :
         (/\ lastOp'.op = "toggle"
          /\ lastOp'.id = habits[i].id
          /\ FindHabit(habits, lastOp'.id) = i
          /\ OnePerDate(habits[i].checkIns))
         => /\ Len(habits') = Len(habits)
            /\ IF today \in DateSet(habits[i].checkIns)
               THEN EntriesOn(habits'[i].checkIns, today) = 0
               ELSE EntriesOn(habits'[i].checkIns, today) = 1]_vars

\* a toggle has just checked in a habit whose only earlier entry carries a
\* time
C10_Witness ==
    /\ lastOp.op = "toggle"
    /\ \E i \in DOMAIN habits :
        /\ habits[i].id = lastOp.id
        /\ Len(habits[i].checkIns) = 2
        /\ habits[i].checkIns[1].t
        /\ habits[i].checkIns[2] = TodayString(today)
        /\ OnePerDate(habits[i].checkIns)

\* C11: immediately after toggleCheckIn on an existing habit, that habit's
\* stored currentStreak and longestStreak equal calculateStreaks(its updated
\* log, today).
C11_ToggleRefreshesStreaks ==
    (lastOp.op = "toggle" /\ lastOp.id # 0)
        => \A i \in DOMAIN habits : habits[i].id = lastOp.id => UpToDate(habits[i])

\* a toggle has just extended yesterday's check-in to a streak of 2
C11_Witness ==
    /\ lastOp.op = "toggle"
    /\ \E i \in DOMAIN habits :
        /\ habits[i].id = lastOp.id
        /\ DateSet(habits[i].checkIns) = {today - 1, today}
        /\ habits[i].currentStreak = 2
        /\ habits[i].longestStreak = 2

\* C12: after init(), every loaded habit carries its persisted log, and its
\* stored currentStreak and longestStreak equal calculateStreaks(that log,
\* today), whatever streak values were persisted and whatever day it is.
C12_InitRecomputesLoaded ==
    lastOp.op = "init"
        => /\ Len(habits) = Len(storedHabits)
           /\ \A i \in DOMAIN habits :
                /\ habits[i].checkIns = storedHabits[i].checkIns
                /\ UpToDate(habits[i])

\* the page was opened the day after the persisted check-in, the persisted
\* record still claims a streak, the loaded habit shows 0
C12_Witness ==
    /\ lastOp.op = "init"
    /\ \E i \in DOMAIN habits :
        /\ storedHabits[i].currentStreak = MaxStale
        /\ habits[i].checkIns # <<>>
        /\ \A d \in DateSet(habits[i].checkIns) : d = today - 1
        /\ habits[i].currentStreak = 0
        /\ habits[i].longestStreak = 1

\* C13: a habit's stored longestStreak does not decrease in any step that
\* leaves its log at least as long as before (a check-in added, a date
\* advance, a rollover check, a reload); it can decrease only in a step that
\* removes a check-in.
C13_LongestNeverDecreases ==
    [][\A i \in DOMAIN habits : \A j \in DOMAIN habits' :
         (/\ habits[i].id = habits'[j].id
          /\ Len(habits'[j].checkIns) >= Len(habits[i].checkIns))
         => habits'[j].longestStreak >= habits[i].longestStreak]_vars

\* a rollover poll has reset the current streak of a habit last checked in
\* two days ago and kept its longest streak of 2
C13_Witness ==
    /\ lastOp.op = "poll"
    /\ lastOp.rolled
    /\ \E i \in DOMAIN habits :
        /\ DateSet(habits[i].checkIns) = {today - 2, today - 3}
        /\ habits[i].currentStreak = 0
        /\ habits[i].longestStreak = 2

\* the newest check-in of the log is two or more days before day t
LastCheckInLongAgo(checkIns, t) ==
    /\ checkIns # <<>>
    /\ \A d \in DateSet(checkIns) : d <= t - 2

\* C14: when the persisted last-checked date is yesterday, a rollover check
\* leaves every habit whose newest check-in is two or more days before today
\* with stored currentStreak = 0, and the persisted last-checked date equal
\* to today.
C14_RolloverResetsOldStreak ==
    [][(/\ lastOp'.rolled
        /\ storedLastChecked = today - 1
        /\ \E j \in DOMAIN habits' : LastCheckInLongAgo(habits'[j].checkIns, today))
       => /\ \A j \in DOMAIN habits' :
               LastCheckInLongAgo(habits'[j].checkIns, today) => habits'[j].currentStreak = 0
          /\ storedLastChecked' = today]_vars

\* a rollover poll has found a habit whose only check-in is two days old,
\* has left it with a current streak of 0, and has saved and stamped today
C14_Witness ==
    /\ lastOp.op = "poll"
    /\ lastOp.rolled
    /\ storedLastChecked = today
    /\ \E i \in DOMAIN habits :
        /\ DateSet(habits[i].checkIns) = {today - 2}
        /\ habits[i].currentStreak = 0
        /\ habits[i].longestStreak = 1
        /\ storedHabits[i] = habits[i]

\* the log without its entries that are no dates
WellFormed(checkIns) == SelectSeq(checkIns, LAMBDA e : DatePart(e) # BadDate)

\* C15: for a log with one malformed entry next to well-formed ones,
\* calculateStreaks returns the streaks of the log without the malformed
\* entry, and loading the habit discards no habit.
C15_MalformedEntryDropped ==
    started =>
        /\ Len(habits) = Len(storedHabits)
        /\ \A i \in DOMAIN habits :
             calculateStreaks(habits[i].checkIns, today)
                 = calculateStreaks(WellFormed(habits[i].checkIns), today)

\* C16: whenever a habit's log contains today, also when it contains entries
\* dated after today, calculateStreaks returns a currentStreak of at least 1
\* that equals the run of consecutive days ending today.
C16_FutureEntriesKeepCurrentStreak ==
    \A i \in DOMAIN habits :
        today \in DateSet(habits[i].checkIns)
            => /\ calculateStreaks(habits[i].checkIns, today).currentStreak >= 1
               /\ calculateStreaks(habits[i].checkIns, today).currentStreak
                      = RunEndingAt(DateSet(habits[i].checkIns), today)

\* C17: a timer poll that finds the persisted last-checked date equal to
\* today changes no habit (log or streak fields), nothing that is persisted
\* and not the last-checked date.
C17_PollSameDayIsNoOp ==
    [][(lastOp'.op = "poll" /\ storedLastChecked = today)
          => UNCHANGED <<habits, storedHabits, storedLastChecked, lastCheckedDate>>]_vars

\* a poll has left alone a habit whose streak a rollover would have rewritten,
\* because the last-checked date was already today
C17_Witness ==
    /\ lastOp.op = "poll"
    /\ ~lastOp.rolled
    /\ storedLastChecked = today
    /\ \E i \in DOMAIN habits :
          RolloverRecomputes(habits[i], today) /\ ~UpToDate(habits[i])

C19_FirstPollAfterAdvanceRolls ==
    [][(lastOp'.op = "poll" /\ lastOp.dateAdvanced) => lastOp'.rolled]_vars

\* the same habits in the same order, each with the same log
SameHabitsAndLogs(before, after) ==
    /\ Len(after) = Len(before)
    /\ \A i \in DOMAIN before :
         /\ after[i].id = before[i].id
         /\ after[i].name = before[i].name
         /\ after[i].checkIns = before[i].checkIns

\* C20: a step that runs handleDateRollover (and through it updateStreaks)
\* keeps the list of habits and every check-in log as they were: as in memory
\* before a timer poll, as persisted before a page load; what it persists has
\* the same habits and logs too.
C20_RolloverKeepsLogs ==
    [][lastOp'.rolled
          => /\ SameHabitsAndLogs(IF lastOp'.op = "poll" THEN habits ELSE storedHabits, habits')
             /\ SameHabitsAndLogs(habits', storedHabits')]_vars

\* a timer poll has run the rollover over a habit without check-ins and a
\* habit whose streak it reset and saved
C20_Witness ==
    /\ lastOp.op = "poll"
    /\ lastOp.rolled
    /\ storedLastChecked = today
    /\ \E i \in DOMAIN habits : habits[i].checkIns = <<>>
    /\ \E i \in DOMAIN habits :
          /\ RolloverRecomputes(habits[i], today)
          /\ habits[i].currentStreak = 0
          /\ habits[i].longestStreak >= 1

\* the entries of a log for dates other than t, in their order
EntriesNotOn(checkIns, t) == SelectSeq(checkIns, LAMBDA e : DatePart(e) # t)

\* C21: toggleCheckIn(id) keeps the list of habits; every habit with another
\* id keeps its log and streak fields; the habit with the id keeps its id,
\* its name and, in order, every entry for a date other than today; and when
\* no habit has the id nothing changes, in memory or persisted, the
\* last-checked date included.
C21_ToggleChangesOnlyTodayOfTarget ==
    [][lastOp'.op = "toggle"
          => /\ Len(habits') = Len(habits)
             /\ \A i \in DOMAIN habits :
                  /\ habits'[i].id = habits[i].id
                  /\ habits'[i].name = habits[i].name
                  /\ EntriesNotOn(habits'[i].checkIns, today) = EntriesNotOn(habits[i].checkIns, today)
                  /\ habits[i].id # lastOp'.id => habits'[i] = habits[i]
             /\ (\A i \in DOMAIN habits : habits[i].id # lastOp'.id)
                  => UNCHANGED <<habits, storedHabits, storedLastChecked, lastCheckedDate>>]_vars

\* a toggle has just added today's entry to a habit that has an entry for
\* another date, next to another habit that has check-ins
C21_Witness ==
    /\ lastOp.op = "toggle"
    /\ Len(habits) = 2
    /\ \E i, j \in DOMAIN habits :
          /\ habits[i].id = lastOp.id
          /\ habits[j].id # lastOp.id
          /\ today \in DateSet(habits[i].checkIns)
          /\ DateSet(habits[i].checkIns) # {today}
          /\ habits[j].checkIns # <<>>

\* a toggle for an id that no habit has, on a day the last-checked date is
\* behind, has left the date and the habits alone
C21_WitnessNoMatch ==
    /\ lastOp.op = "toggle"
    /\ lastOp.id = 0
    /\ habits # <<>>
    /\ storedLastChecked # today

====
